---- MODULE Spec2Model ----
(***************************************************************************)
(* Model of the Wolf of Allegro auction engine: engine/simulation.py       *)
(* (AuctionEngine), engine/team.py (Team), engine/llm_client.py            *)
(* (LLMClient.parse_bid_response), engine/models.py and the game runner of *)
(* main.py.                                                                *)
(*                                                                         *)
(* Items are referred to by their position in self.items (the Python code  *)
(* passes references to the Item objects of that list); Item.__eq__ is     *)
(* modelled by ItemEq, which compares names.  Teams are referred to by     *)
(* their position in self.teams; the code looks teams up by name.          *)
(***************************************************************************)
EXTENDS Integers, Sequences, FiniteSets, TLC

\* ------------------------------------------------------------------------
\* Bounds and configuration
\* ------------------------------------------------------------------------

\* GameConfig.base_budget, in model units (the code's default is 1500).
base_budget == 2

\* GameConfig.budget_per_team (ge=0).
budget_per_team == 0

None == "None"

\* The value of launch in the specifications that start after main()'s startup.
NoLaunch == [started |-> FALSE]

\* The item catalogs a scenario file may hold (after Item construction).
Catalogs ==
  { << [name |-> "A", quality |-> 50, is_required |-> TRUE],
       [name |-> "B", quality |-> 0, is_required |-> FALSE] >> }

\* The --teams lists the game is run with: main() accepts every list of at
\* least 2 names whose prompt files exist, a repeated name included.
TeamPrompts == { <<"X", "Y">>, <<"X", "X">> }

\* The --max-iterations values the game is run with (GameConfig: 1..100).
MaxIterationChoices == {1, 2}

\* A longer catalog, with two required items of different quality.
LongCatalog ==
  << [name |-> "A", quality |-> 50, is_required |-> TRUE],
     [name |-> "B", quality |-> 0, is_required |-> FALSE],
     [name |-> "C", quality |-> 30, is_required |-> TRUE] >>

\* GameConfig records the runs start from: the short catalogs with every
\* iteration cap, the long catalog with one iteration per item.
Configs ==
  { [team_prompts |-> tp, max_iterations |-> mi, scenario |-> c] :
      tp \in TeamPrompts, mi \in MaxIterationChoices, c \in Catalogs }
  \cup
  { [team_prompts |-> tp, max_iterations |-> 1, scenario |-> LongCatalog] :
      tp \in TeamPrompts }

\* GameConfig.calculate_starting_budget
calculate_starting_budget(num_teams) == base_budget + (num_teams * budget_per_team)

\* ------------------------------------------------------------------------
\* Reasoning-service responses and bid parsing (llm_client.py)
\* ------------------------------------------------------------------------

Digits == {"0", "1", "9"}

DigitVal(c) == CASE c = "0" -> 0 [] c = "1" -> 1 [] c = "2" -> 2 [] c = "3" -> 3
                 [] c = "4" -> 4 [] c = "5" -> 5 [] c = "6" -> 6 [] c = "7" -> 7
                 [] c = "8" -> 8 [] c = "9" -> 9

IsDigit(c) == c \in {"0", "1", "2", "3", "4", "5", "6", "7", "8", "9"}

\* What chat_completion returns: None on a failed call, an empty or
\* malformed payload; otherwise the stripped text, as a sequence of characters.
NoResponse == [none |-> TRUE, text |-> <<>>]

Text(s) == [none |-> FALSE, text |-> s]

Responses ==
  {NoResponse} \cup { Text(<<d>>) : d \in Digits }
    \cup { Text(<<"b">>), Text(<<"-", "1">>), Text(<<"b", "1">>), Text(<<"1", "b">>),
           Text(<<" ", "1">>), Text(<<"1", "0">>) }

\* str.strip(): remove leading and trailing blanks.
RECURSIVE lstrip(_)
lstrip(s) == IF s # <<>> /\ Head(s) = " " THEN lstrip(Tail(s)) ELSE s

RECURSIVE rstrip(_)
rstrip(s) == IF s # <<>> /\ s[Len(s)] = " " THEN rstrip(SubSeq(s, 1, Len(s) - 1)) ELSE s

strip(s) == rstrip(lstrip(s))

\* The longest run of digits at the head of s (the \d+ of the pattern).
RECURSIVE LeadingDigits(_)
LeadingDigits(s) ==
  IF s # <<>> /\ IsDigit(Head(s)) THEN <<Head(s)>> \o LeadingDigits(Tail(s)) ELSE <<>>

\* int() of a non-empty digit string.
RECURSIVE DecimalValue(_)
DecimalValue(ds) ==
  IF ds = <<>> THEN 0
  ELSE 10 * DecimalValue(SubSeq(ds, 1, Len(ds) - 1)) + DigitVal(ds[Len(ds)])

\* LLMClient.parse_bid_response: re.search(r'^-?\d+', cleaned)
parse_bid_response(response) ==
  IF response.none THEN 0
  ELSE LET cleaned == strip(response.text)
           negative == cleaned # <<>> /\ Head(cleaned) = "-"
           rest == IF negative THEN Tail(cleaned) ELSE cleaned
           ds == LeadingDigits(rest)
       IN IF ds = <<>> THEN 0
          ELSE IF negative /\ DecimalValue(ds) > 0 THEN 0
          ELSE DecimalValue(ds)

\* Team.get_bid: parse the response, cap the bid to the team's budget.
get_bid(response, budget) ==
  LET bid == parse_bid_response(response)
  IN IF bid > budget THEN budget ELSE bid

\* ------------------------------------------------------------------------
\* State
\* ------------------------------------------------------------------------
VARIABLES
  config,                       \* GameConfig
  items,                        \* AuctionEngine.items
  teams,                        \* AuctionEngine.teams: the TeamState of each Team
  remaining_items,              \* AuctionEngine.remaining_items
  auction_history,              \* AuctionEngine.auction_history
  pc,                           \* position in main / run / _run_single_auction
  round_number,                 \* i of run's loop; the current item is items[i]
  iteration,                    \* loop variable of _run_single_auction
  loop_done,                    \* the for loop of _run_single_auction fell through
  all_bids,
  winning_bids_history,
  iteration_start_high_bid,
  iteration_start_high_bidder,
  shuffled_teams,
  iteration_bids,
  bids_history_snapshot,
  pos,                          \* position of the inner loop in shuffled_teams
  game_states,                  \* the GameStates built (and saved) in this iteration
  rankings,                     \* the value run() returns (empty before)
  flushed,                      \* what save_session_logs wrote last
  start_teams,                  \* the team states when the current auction started
  cast_by,                      \* per round, the team (position in self.teams) that
                                \* cast each bid of all_bids
  llm_response,                 \* the response a single get_bid call works on
  parsed_bid,                   \* what parse_bid_response returned for it (-1 before)
  launch                        \* the command line and files main() is started with

vars == << config, items, teams, remaining_items, auction_history, pc, round_number,
           iteration, loop_done, all_bids, winning_bids_history,
           iteration_start_high_bid, iteration_start_high_bidder, shuffled_teams,
           iteration_bids, bids_history_snapshot, pos, game_states, rankings, flushed,
           start_teams, cast_by, llm_response, parsed_bid, launch >>

probe_vars == << llm_response, parsed_bid, launch >>

engine_vars == << config, items, teams, remaining_items, auction_history >>

auction_locals == << iteration, loop_done, all_bids, winning_bids_history,
                     iteration_start_high_bid, iteration_start_high_bidder,
                     shuffled_teams, iteration_bids, bids_history_snapshot, pos >>

NumTeams == Len(teams)

TeamIdx == 1..NumTeams

\* ------------------------------------------------------------------------
\* Helpers of the engine
\* ------------------------------------------------------------------------

\* Item.__eq__: two items are equal when their names are.
ItemEq(i, j) == items[i].name = items[j].name

\* TeamState.required_count
required_count(state) ==
  Cardinality({k \in 1..Len(state.acquired_items) : items[state.acquired_items[k]].is_required})

RECURSIVE SumQuality(_)
SumQuality(acq) ==
  IF acq = <<>> THEN 0 ELSE items[Head(acq)].quality + SumQuality(Tail(acq))

\* TeamState.total_quality
total_quality(state) == SumQuality(state.acquired_items)

\* A TeamState object that was handed out carries the values it was created
\* with and the field live: 0 for an object of its own, t for the very state
\* object of self.teams[t], whose fields are those of the team when read.
\* Mutant of get_state: return self.state, the live object.
get_state_shared(t) == [name |-> teams[t].name, budget |-> teams[t].budget,
                        acquired_items |-> teams[t].acquired_items, live |-> t]

\* Team.get_state: self.state.model_copy(deep=True), an object of its own.
get_state(t) == [name |-> teams[t].name, budget |-> teams[t].budget,
                 acquired_items |-> teams[t].acquired_items, live |-> 0]

\* What reading a handed-out TeamState object gives now.
read_state(s) ==
  IF s.live = 0
  THEN [name |-> s.name, budget |-> s.budget, acquired_items |-> s.acquired_items]
  ELSE teams[s.live]

\* Mutant of Orders: the teams are drawn with repetition.
Orders_with_repeats == [TeamIdx -> TeamIdx]

\* The random.shuffle results: every order of self.teams.
Orders == { s \in [TeamIdx -> TeamIdx] : \A a, b \in TeamIdx : a # b => s[a] # s[b] }

\* next(t for t in self.teams if t.name == name): the first team of that name.
FindTeam(name) == CHOOSE t \in TeamIdx : /\ teams[t].name = name
                                         /\ \A u \in 1..(t - 1) : teams[u].name # name

\* _build_game_state
build_game_state(t, current_item, iter, high_bid, high_bidder, bids_history) ==
  [ current_item |-> current_item,
    my_team |-> get_state(t),
    opponent_teams |->
      LET opp == SelectSeq([u \in TeamIdx |-> u], LAMBDA u : teams[u].name # teams[t].name)
      IN [k \in 1..Len(opp) |-> get_state(opp[k])],
    remaining_items |-> SelectSeq(remaining_items, LAMBDA i : ~ItemEq(i, current_item)),
    auction_history |-> auction_history,
    current_iteration |-> iter,
    round_number |-> round_number,
    current_highest_bid |-> high_bid,
    current_highest_bidder |-> high_bidder,
    bids_history |-> bids_history ]

RECURSIVE MaxAmount(_)
MaxAmount(bids) ==
  IF bids = <<>> THEN 0
  ELSE LET m == MaxAmount(Tail(bids))
       IN IF Head(bids).amount >= m THEN Head(bids).amount ELSE m

\* Mutant of FirstTied: the first bid of the iteration, whatever its amount.
FirstTied_head(bids) == bids[1]

\* tied_bids[0]: the first bid of the iteration, in the order cast, at the maximum.
FirstTied(bids) ==
  LET k == CHOOSE k \in 1..Len(bids) :
             /\ bids[k].amount = MaxAmount(bids)
             /\ \A j \in 1..(k - 1) : bids[j].amount # MaxAmount(bids)
  IN bids[k]

\* AuctionEngine.get_detailed_logs
RECURSIVE get_detailed_logs(_)
get_detailed_logs(history) ==
  IF history = <<>> THEN <<>>
  ELSE LET result == history[Len(history)]
       IN get_detailed_logs(SubSeq(history, 1, Len(history) - 1)) \o
          [k \in 1..Len(result.all_bids) |->
             [ item_name |-> items[result.item].name,
               item_quality |-> items[result.item].quality,
               item_required |-> items[result.item].is_required,
               team_name |-> result.all_bids[k].team_name,
               bid_amount |-> result.all_bids[k].amount,
               iteration |-> result.all_bids[k].iteration,
               won |-> (result.all_bids[k].team_name = result.winning_team
                        /\ result.all_bids[k].amount = result.winning_bid),
               winning_bid |-> result.winning_bid ]]

\* Mutant of session_logs: nothing is written.
session_logs_skipped(before) == before

\* What save_session_logs writes, given what the files held before.
session_logs(before) ==
  [ detailed_logs |-> IF get_detailed_logs(auction_history) # <<>>
                      THEN get_detailed_logs(auction_history) ELSE before.detailed_logs,
    auction_results |->
      IF auction_history # <<>>
      THEN [k \in 1..Len(auction_history) |->
              [ item_name |-> items[auction_history[k].item].name,
                winner |-> auction_history[k].winning_team,
                winning_bid |-> auction_history[k].winning_bid,
                iterations |-> auction_history[k].iterations ]]
      ELSE before.auction_results,
    team_states |-> [t \in TeamIdx |-> get_state(t)] ]

NoLocals ==
  /\ iteration' = 0
  /\ loop_done' = FALSE
  /\ all_bids' = <<>>
  /\ winning_bids_history' = <<>>
  /\ iteration_start_high_bid' = 0
  /\ iteration_start_high_bidder' = None
  /\ shuffled_teams' = <<>>
  /\ iteration_bids' = <<>>
  /\ bids_history_snapshot' = <<>>
  /\ pos' = 0

\* ------------------------------------------------------------------------
\* Initial state: AuctionEngine.__init__ has run
\* ------------------------------------------------------------------------
Init ==
  /\ config \in Configs
  /\ items = config.scenario
  /\ teams = [t \in 1..Len(config.team_prompts) |->
                [ name |-> config.team_prompts[t],
                  budget |-> calculate_starting_budget(Len(config.team_prompts)),
                  acquired_items |-> <<>> ]]
  /\ remaining_items = [k \in 1..Len(config.scenario) |-> k]
  /\ auction_history = <<>>
  /\ pc = "next_item"
  /\ round_number = 0
  /\ iteration = 0
  /\ loop_done = FALSE
  /\ all_bids = <<>>
  /\ winning_bids_history = <<>>
  /\ iteration_start_high_bid = 0
  /\ iteration_start_high_bidder = None
  /\ shuffled_teams = <<>>
  /\ iteration_bids = <<>>
  /\ bids_history_snapshot = <<>>
  /\ pos = 0
  /\ game_states = <<>>
  /\ rankings = <<>>
  /\ flushed = [detailed_logs |-> <<>>, auction_results |-> <<>>, team_states |-> <<>>]
  /\ start_teams = teams
  /\ cast_by = <<>>
  /\ llm_response = NoResponse
  /\ parsed_bid = -1
  /\ launch = NoLaunch


\* ------------------------------------------------------------------------
\* Team.win_item, statement by statement
\* ------------------------------------------------------------------------

\* Mutant of win_item_debit: the price is added to the budget.
win_item_debit_credit(state, price) == [state EXCEPT !.budget = @ + price]

\* Mutant of win_item_debit: the price is assigned, not subtracted.
win_item_debit_assign(state, price) == [state EXCEPT !.budget = price]

\* self.state.budget -= price
win_item_debit(state, price) == [state EXCEPT !.budget = @ - price]

\* Mutant of win_item_append: the item is not recorded.
win_item_append_missing(state, item) == state

\* self.state.acquired_items.append(item)
win_item_append(state, item) == [state EXCEPT !.acquired_items = Append(@, item)]

\* ------------------------------------------------------------------------
\* AuctionEngine._run_single_auction
\* ------------------------------------------------------------------------

\* Mutant of SnapshotHighBid: the leader amount is updated while the bids come in.
SnapshotHighBid_running ==
  IF MaxAmount(iteration_bids) > iteration_start_high_bid
  THEN MaxAmount(iteration_bids) ELSE iteration_start_high_bid

\* The leader amount and bidder every GameState of the running iteration carries.
SnapshotHighBid == iteration_start_high_bid

SnapshotHighBidder == iteration_start_high_bidder

\* Mutant of LoopContinues: the range runs one iteration too far.
LoopContinues_off_by_one == iteration <= config.max_iterations

\* for iteration in range(1, self.config.max_iterations + 1): one more iteration.
LoopContinues == iteration < config.max_iterations

\* The condition under which the item is handed to the leader (lines 234, 262):
\* the amount is positive and the leader's name is truthy (neither None nor "").
HasWinner ==
  /\ iteration_start_high_bid > 0
  /\ iteration_start_high_bidder # None
  /\ iteration_start_high_bidder # ""

\* Mutant of Outbid: a bid equal to the leading amount counts as outbidding.
Outbid_or_equal(bids, high_bid) == MaxAmount(bids) >= high_bid

\* The test of line 208: somebody outbid the leader of the iteration's start.
Outbid(bids, high_bid) == MaxAmount(bids) > high_bid

\* Mutant of NewLeader: tied_bids[-1], the last of the tied bids.
NewLeader_last_tied(bids) ==
  LET k == CHOOSE k \in 1..Len(bids) :
             /\ bids[k].amount = MaxAmount(bids)
             /\ \A j \in (k + 1)..Len(bids) : bids[j].amount # MaxAmount(bids)
  IN bids[k].team_name

\* The name recorded as the new leader (lines 212-213).
NewLeader(bids) == FirstTied(bids).team_name

\* The team win_item is called on (lines 235, 263).
Winner == FindTeam(iteration_start_high_bidder)

\* Mutant of MakeResult: at the cap the code falls through to the last
\* return, the one that reports no valid bids.
MakeResult_cap_fallthrough ==
  [ item |-> round_number,
    winning_team |-> IF HasWinner /\ ~loop_done THEN iteration_start_high_bidder ELSE None,
    winning_bid |-> IF HasWinner /\ ~loop_done THEN iteration_start_high_bid ELSE 0,
    all_bids |-> all_bids,
    iterations |-> IF loop_done THEN config.max_iterations ELSE iteration ]

\* Mutant of MakeResult: only the bids of the last iteration are reported.
MakeResult_last_iteration_bids ==
  [ item |-> round_number,
    winning_team |-> IF HasWinner THEN iteration_start_high_bidder ELSE None,
    winning_bid |-> IF HasWinner THEN iteration_start_high_bid ELSE 0,
    all_bids |-> iteration_bids,
    iterations |-> IF loop_done THEN config.max_iterations ELSE iteration ]

\* Mutant of MakeResult: without a leader the first bidder is named.
MakeResult_first_bidder_named ==
  [ item |-> round_number,
    winning_team |-> IF HasWinner THEN iteration_start_high_bidder ELSE all_bids[1].team_name,
    winning_bid |-> IF HasWinner THEN iteration_start_high_bid ELSE 0,
    all_bids |-> all_bids,
    iterations |-> IF loop_done THEN config.max_iterations ELSE iteration ]

\* The AuctionResult returned (lines 243-249, 253-259, 271-277, 280-286).
MakeResult ==
  [ item |-> round_number,
    winning_team |-> IF HasWinner THEN iteration_start_high_bidder ELSE None,
    winning_bid |-> IF HasWinner THEN iteration_start_high_bid ELSE 0,
    all_bids |-> all_bids,
    iterations |-> IF loop_done THEN config.max_iterations ELSE iteration ]

\* run(): the next item of self.items enters _run_single_auction.
StartAuction ==
  /\ pc = "next_item"
  /\ round_number < Len(items)
  /\ round_number' = round_number + 1
  /\ NoLocals
  /\ game_states' = <<>>
  /\ start_teams' = teams
  /\ pc' = "iter_head"
  /\ cast_by' = Append(cast_by, <<>>)
  /\ UNCHANGED << engine_vars, rankings, flushed, probe_vars >>

\* The head of an iteration: shuffle the teams, freeze the bid history.
ShuffleTeams ==
  /\ pc = "iter_head"
  /\ LoopContinues
  /\ iteration' = iteration + 1
  /\ \E order \in Orders : shuffled_teams' = order
  /\ iteration_bids' = <<>>
  /\ bids_history_snapshot' = winning_bids_history
  /\ pos' = 1
  /\ game_states' = <<>>
  /\ pc' = "bidding"
  /\ UNCHANGED << engine_vars, round_number, loop_done, all_bids, winning_bids_history,
                  iteration_start_high_bid, iteration_start_high_bidder, rankings,
                  flushed, start_teams, cast_by, probe_vars >>

\* One pass of the inner loop: build and save the team's GameState, ask the
\* team for its bid, record the Bid.
RequestBid ==
  /\ pc = "bidding"
  /\ pos <= NumTeams
  /\ LET t == shuffled_teams[pos]
         gs == build_game_state(t, round_number, iteration, SnapshotHighBid,
                                SnapshotHighBidder, bids_history_snapshot)
     IN /\ game_states' = Append(game_states, gs)
        /\ \E response \in Responses :
             LET bid_amount == get_bid(response, teams[t].budget)
                 bid == [team_name |-> teams[t].name, amount |-> bid_amount,
                         iteration |-> iteration]
             IN /\ bid_amount >= 0          \* Bid.amount: ge=0
                /\ iteration_bids' = Append(iteration_bids, bid)
                /\ all_bids' = Append(all_bids, bid)
  /\ cast_by' = [cast_by EXCEPT ![round_number] = Append(@, shuffled_teams[pos])]
  /\ pos' = pos + 1
  /\ UNCHANGED << engine_vars, pc, round_number, iteration, loop_done,
                  winning_bids_history, iteration_start_high_bid,
                  iteration_start_high_bidder, shuffled_teams, bids_history_snapshot,
                  rankings, flushed, start_teams, probe_vars >>

\* After all teams have bid: update the leader and go on, or end the auction.
EndIteration ==
  /\ pc = "bidding"
  /\ pos > NumTeams
  /\ IF Outbid(iteration_bids, iteration_start_high_bid)
     THEN /\ iteration_start_high_bid' = MaxAmount(iteration_bids)
          /\ iteration_start_high_bidder' = NewLeader(iteration_bids)
          /\ winning_bids_history' =
               Append(winning_bids_history,
                      [team_name |-> NewLeader(iteration_bids),
                       amount |-> MaxAmount(iteration_bids),
                       iteration |-> iteration])
          /\ pc' = "iter_head"
     ELSE /\ UNCHANGED << iteration_start_high_bid, iteration_start_high_bidder,
                          winning_bids_history >>
          /\ pc' = IF HasWinner THEN "win_item" ELSE "return_result"
  /\ UNCHANGED << engine_vars, round_number, iteration, loop_done, all_bids,
                  shuffled_teams, iteration_bids, bids_history_snapshot, pos,
                  game_states, rankings, flushed, start_teams, cast_by, probe_vars >>

\* The for loop ends without a return: max_iterations iterations have run.
LoopExhausted ==
  /\ pc = "iter_head"
  /\ ~LoopContinues
  /\ loop_done' = TRUE
  /\ pc' = IF HasWinner THEN "win_item" ELSE "return_result"
  /\ UNCHANGED << engine_vars, round_number, iteration, all_bids, winning_bids_history,
                  iteration_start_high_bid, iteration_start_high_bidder, shuffled_teams,
                  iteration_bids, bids_history_snapshot, pos, game_states, rankings,
                  flushed, start_teams, cast_by, probe_vars >>

\* winner.win_item(...), first statement: the budget is debited.
WinItemDebit ==
  /\ pc = "win_item"
  /\ teams' = [teams EXCEPT ![Winner] = win_item_debit(@, iteration_start_high_bid)]
  /\ pc' = "win_item_append"
  /\ UNCHANGED << config, items, remaining_items, auction_history, round_number,
                  auction_locals, game_states, rankings, flushed, start_teams, cast_by,
                  probe_vars >>

\* winner.win_item(...), second statement: the item is appended.
WinItemAppend ==
  /\ pc = "win_item_append"
  /\ teams' = [teams EXCEPT ![Winner] = win_item_append(@, round_number)]
  /\ pc' = "return_result"
  /\ UNCHANGED << config, items, remaining_items, auction_history, round_number,
                  auction_locals, game_states, rankings, flushed, start_teams, cast_by,
                  probe_vars >>

\* Mutant of record_result: the result takes the place of the last one.
record_result_overwriting(history, result) ==
  IF history = <<>> THEN <<result>>
  ELSE [history EXCEPT ![Len(history)] = result]

\* self.auction_history.append(result)
record_result(history, result) == Append(history, result)

\* _run_single_auction returns its AuctionResult; run() appends it to the history.
ReturnResult ==
  /\ pc = "return_result"
  /\ auction_history' = record_result(auction_history, MakeResult)
  /\ pc' = "save_logs"
  /\ UNCHANGED << config, items, teams, remaining_items, round_number, auction_locals,
                  game_states, rankings, flushed, start_teams, cast_by, probe_vars >>

\* run(): self.save_session_logs() after the auction.
SaveSessionLogs ==
  /\ pc = "save_logs"
  /\ flushed' = session_logs(flushed)
  /\ pc' = "remove_item"
  /\ UNCHANGED << engine_vars, round_number, auction_locals, game_states, rankings,
                  start_teams, cast_by, probe_vars >>

\* list.remove: drop the first element equal (by name) to the item.
remove_item(remaining, item) ==
  LET k == CHOOSE k \in 1..Len(remaining) :
             /\ ItemEq(remaining[k], item)
             /\ \A j \in 1..(k - 1) : ~ItemEq(remaining[j], item)
  IN SubSeq(remaining, 1, k - 1) \o SubSeq(remaining, k + 1, Len(remaining))

\* run(): if item in self.remaining_items: self.remaining_items.remove(item)
RemoveItem ==
  /\ pc = "remove_item"
  /\ remaining_items' =
       IF \E k \in 1..Len(remaining_items) : ItemEq(remaining_items[k], round_number)
       THEN remove_item(remaining_items, round_number)
       ELSE remaining_items
  /\ pc' = "next_item"
  /\ UNCHANGED << config, items, teams, auction_history, round_number, auction_locals,
                  game_states, rankings, flushed, start_teams, cast_by, probe_vars >>

\* ------------------------------------------------------------------------
\* AuctionEngine._calculate_rankings
\* ------------------------------------------------------------------------

RankKey(state) == << required_count(state), total_quality(state), state.budget >>

\* Mutant of KeyGreater: k1 >= k2, which puts a score before its equals.
KeyGreater_or_equal(k1, k2) ==
  \/ k1 = k2
  \/ k1[1] > k2[1]
  \/ k1[1] = k2[1] /\ k1[2] > k2[2]
  \/ k1[1] = k2[1] /\ k1[2] = k2[2] /\ k1[3] > k2[3]

\* Tuple comparison k1 > k2 of Python, on the three-element keys.
KeyGreater(k1, k2) ==
  \/ k1[1] > k2[1]
  \/ k1[1] = k2[1] /\ k1[2] > k2[2]
  \/ k1[1] = k2[1] /\ k1[2] = k2[2] /\ k1[3] > k2[3]

\* Insert a score into a list sorted in descending order, after its equals.
RECURSIVE InsertDesc(_, _)
InsertDesc(sorted, score) ==
  IF sorted = <<>> THEN <<score>>
  ELSE IF KeyGreater(RankKey(score), RankKey(Head(sorted)))
       THEN <<score>> \o sorted
       ELSE <<Head(sorted)>> \o InsertDesc(Tail(sorted), score)

\* list.sort(key=..., reverse=True): a stable sort in descending order.
RECURSIVE SortDesc(_)
SortDesc(scores) ==
  IF scores = <<>> THEN <<>>
  ELSE InsertDesc(SortDesc(SubSeq(scores, 1, Len(scores) - 1)), scores[Len(scores)])

\* Mutant of calculate_rankings: the entries are added to the list of an
\* earlier computation.
calculate_rankings_accumulating ==
  LET team_scores == SortDesc([t \in TeamIdx |-> get_state(t)])
  IN rankings \o
     [rank \in 1..Len(team_scores) |->
        [ rank |-> rank,
          team_name |-> team_scores[rank].name,
          required_count |-> required_count(team_scores[rank]),
          total_quality |-> total_quality(team_scores[rank]),
          remaining_budget |-> team_scores[rank].budget,
          items |-> [k \in 1..Len(team_scores[rank].acquired_items) |->
                       items[team_scores[rank].acquired_items[k]].name] ]]

\* _calculate_rankings: the FinalRanking list of the current team states.
calculate_rankings ==
  LET team_scores == SortDesc([t \in TeamIdx |-> get_state(t)])
  IN [rank \in 1..Len(team_scores) |->
        [ rank |-> rank,
          team_name |-> team_scores[rank].name,
          required_count |-> required_count(team_scores[rank]),
          total_quality |-> total_quality(team_scores[rank]),
          remaining_budget |-> team_scores[rank].budget,
          items |-> [k \in 1..Len(team_scores[rank].acquired_items) |->
                       items[team_scores[rank].acquired_items[k]].name] ]]

\* run(): all items are auctioned; the rankings are computed and returned.
CalculateRankings ==
  /\ pc = "next_item"
  /\ round_number >= Len(items)
  /\ rankings' = calculate_rankings
  /\ pc' = "done"
  /\ UNCHANGED << engine_vars, round_number, auction_locals, game_states, flushed,
                  start_teams, cast_by, probe_vars >>

\* ------------------------------------------------------------------------
\* main(): interruption and errors while the game runs
\* ------------------------------------------------------------------------

Running == pc \notin {"done", "interrupted", "failed", "startup", "construct", "startup_error"}

\* except KeyboardInterrupt: the frames of run() are unwound, the partial
\* results are saved, the program exits.
Interrupt ==
  /\ Running
  /\ flushed' = session_logs(flushed)
  /\ NoLocals
  /\ game_states' = <<>>
  /\ pc' = "interrupted"
  /\ cast_by' = SubSeq(cast_by, 1, Len(auction_history))
  /\ UNCHANGED << engine_vars, round_number, rankings, start_teams, probe_vars >>

\* except Exception: an exception leaves run() (a write of _save_game_state or
\* of save_session_logs fails, or Bid rejects a negative amount); the partial
\* results are saved, the program exits.
GameError ==
  /\ \/ pc = "bidding" /\ pos <= NumTeams
     \/ pc = "save_logs"
  /\ flushed' = session_logs(flushed)
  /\ NoLocals
  /\ game_states' = <<>>
  /\ pc' = "failed"
  /\ cast_by' = SubSeq(cast_by, 1, Len(auction_history))
  /\ UNCHANGED << engine_vars, round_number, rankings, start_teams, probe_vars >>

Next ==
  \/ StartAuction
  \/ ShuffleTeams
  \/ RequestBid
  \/ EndIteration
  \/ LoopExhausted
  \/ WinItemDebit
  \/ WinItemAppend
  \/ ReturnResult
  \/ SaveSessionLogs
  \/ RemoveItem
  \/ CalculateRankings
  \/ Interrupt
  \/ GameError

Spec == Init /\ [][Next]_vars

\* ------------------------------------------------------------------------
\* A single call of parse_bid_response (Team.get_bid, line 151), on its own
\* ------------------------------------------------------------------------

\* The longest response text the parsing specification draws.
MaxResponseLen == 3

\* The characters of the response texts: a sign, a blank, a letter, digits.
ParseAlphabet == {"-", " ", "b"} \cup Digits

\* What parse_bid_response may be given: None or any text.
ParseInputs ==
  {NoResponse} \cup
  { Text(s) : s \in UNION { [1..k -> ParseAlphabet] : k \in 0..MaxResponseLen } }

\* A freshly constructed engine, and a response about to be parsed.
ParseInit ==
  /\ config = [team_prompts |-> <<"X", "Y">>, max_iterations |-> 1, scenario |-> LongCatalog]
  /\ items = config.scenario
  /\ teams = [t \in 1..Len(config.team_prompts) |->
                [ name |-> config.team_prompts[t],
                  budget |-> calculate_starting_budget(Len(config.team_prompts)),
                  acquired_items |-> <<>> ]]
  /\ remaining_items = [k \in 1..Len(config.scenario) |-> k]
  /\ auction_history = <<>>
  /\ pc = "parse_bid"
  /\ round_number = 0
  /\ iteration = 0
  /\ loop_done = FALSE
  /\ all_bids = <<>>
  /\ winning_bids_history = <<>>
  /\ iteration_start_high_bid = 0
  /\ iteration_start_high_bidder = None
  /\ shuffled_teams = <<>>
  /\ iteration_bids = <<>>
  /\ bids_history_snapshot = <<>>
  /\ pos = 0
  /\ game_states = <<>>
  /\ rankings = <<>>
  /\ flushed = [detailed_logs |-> <<>>, auction_results |-> <<>>, team_states |-> <<>>]
  /\ start_teams = teams
  /\ cast_by = <<>>
  /\ llm_response \in ParseInputs
  /\ parsed_bid = -1
  /\ launch = NoLaunch

\* bid = self.llm_client.parse_bid_response(response)
ParseBidResponse ==
  /\ pc = "parse_bid"
  /\ parsed_bid' = parse_bid_response(llm_response)
  /\ pc' = "parsed"
  /\ UNCHANGED << engine_vars, round_number, auction_locals, game_states, rankings,
                  flushed, start_teams, cast_by, llm_response, launch >>

ParseNext == ParseBidResponse

ParseSpec == ParseInit /\ [][ParseNext]_vars

\* ------------------------------------------------------------------------
\* Startup: the checks of main() and AuctionEngine.__init__
\* ------------------------------------------------------------------------

\* The catalogs the scenario files of the startup specification describe:
\* lists of (name, quality, required), a junk item with and without a
\* quality, and a name that occurs twice.
StartContents ==
  { << [name |-> "A", quality |-> 50, is_required |-> TRUE] >>,
    << [name |-> "B", quality |-> 0, is_required |-> FALSE] >>,
    << [name |-> "B", quality |-> 50, is_required |-> FALSE] >>,
    << [name |-> "A", quality |-> 50, is_required |-> TRUE],
       [name |-> "B", quality |-> 50, is_required |-> FALSE] >>,
    << [name |-> "A", quality |-> 50, is_required |-> TRUE],
       [name |-> "A", quality |-> 30, is_required |-> TRUE] >> }

\* One JSON object of a scenario file, in one of the two key conventions.
encode_item(it, casing) ==
  IF casing = "lower"
  THEN [name |-> it.name, quality |-> it.quality, is_required |-> it.is_required]
  ELSE [Name |-> it.name, Quality |-> it.quality, IsRequired |-> it.is_required]

\* A scenario file holding a catalog: a bare array, or an object with "items".
encode_scenario(content, shape, casing) ==
  [ exists |-> TRUE, json |-> shape,
    data |-> [k \in 1..Len(content) |-> encode_item(content[k], casing)] ]

\* The scenario files main() may be pointed at: the encodings of the catalogs,
\* no file, a file that is not JSON, an object without "items", an item
\* without its quality and required fields.
ScenarioFiles ==
  { encode_scenario(c, shape, casing) :
      c \in StartContents, shape \in {"list", "object"}, casing \in {"lower", "capital"} }
  \cup
  { [exists |-> FALSE, json |-> "list", data |-> <<>>],
    [exists |-> TRUE, json |-> "invalid", data |-> <<>>],
    [exists |-> TRUE, json |-> "object_without_items", data |-> <<>>],
    [exists |-> TRUE, json |-> "list", data |-> << [name |-> "A"] >>] }

\* The command lines and files of a run: --teams (empty when not given), the
\* prompt files of prompts/, the scenario file, whether GOOGLE_API_KEY is set.
Launches ==
  { [started |-> TRUE, teams_arg |-> ta, prompt_files |-> pf, scenario |-> sf, api_key |-> key] :
      ta \in { <<>>, <<"X">>, <<"X", "Y">>, <<"X", "Z">> },
      pf \in { {"X", "Y"}, {"X"} },
      sf \in ScenarioFiles,
      key \in BOOLEAN }

\* dict.get(key): the value, or None.
dict_get(d, key) ==
  IF key \in DOMAIN d THEN [some |-> TRUE, val |-> d[key]] ELSE [some |-> FALSE, val |-> 0]

\* Lines 84-88 of _load_scenario: a or b gives b when a is None, 0 or "".
normalize(item_data) ==
  [ name |-> IF dict_get(item_data, "name").some /\ dict_get(item_data, "name").val # ""
             THEN dict_get(item_data, "name") ELSE dict_get(item_data, "Name"),
    quality |-> IF dict_get(item_data, "quality").some /\ dict_get(item_data, "quality").val # 0
                THEN dict_get(item_data, "quality") ELSE dict_get(item_data, "Quality"),
    is_required |-> IF "is_required" \in DOMAIN item_data
                    THEN dict_get(item_data, "is_required")
                    ELSE dict_get(item_data, "IsRequired") ]

\* The field validation of Item: name: str, quality: int in 0..100,
\* is_required: bool, none of them None.
item_valid(normalized) ==
  /\ normalized.name.some
  /\ normalized.quality.some
  /\ normalized.quality.val >= 0
  /\ normalized.quality.val <= 100
  /\ normalized.is_required.some

\* Mutant of model_post_init: the quality is left as given.
model_post_init_kept(item) == item

\* Item.model_post_init: a junk item has quality 0.
model_post_init(item) ==
  IF ~item.is_required /\ item.quality # 0 THEN [item EXCEPT !.quality = 0] ELSE item

\* Item(**normalized), for a valid normalized dict.
make_item(normalized) ==
  model_post_init([ name |-> normalized.name.val, quality |-> normalized.quality.val,
                    is_required |-> normalized.is_required.val ])

\* _load_scenario: the items, or an exception (ok = FALSE).
load_scenario(file) ==
  IF /\ file.exists
     /\ file.json \in {"list", "object"}
     /\ \A k \in 1..Len(file.data) : item_valid(normalize(file.data[k]))
  THEN [ok |-> TRUE, items |-> [k \in 1..Len(file.data) |-> make_item(normalize(file.data[k]))]]
  ELSE [ok |-> FALSE, items |-> <<>>]

\* get_available_teams: the stems of prompts/*.txt, in the order glob gives.
available_teams(prompt_files) ==
  { order \in [1..Cardinality(prompt_files) -> prompt_files] :
      \A a, b \in 1..Cardinality(prompt_files) : a # b => order[a] # order[b] }

\* Mutant of enough_teams: a single team is accepted.
enough_teams_one(team_names) == Len(team_names) >= 1

\* main(), line 208: at least 2 teams.
enough_teams(team_names) == Len(team_names) >= 2

\* main(), lines 222-227 (and Team._load_prompt): every team has its prompt file.
prompts_exist(team_names, prompt_files) ==
  \A k \in 1..Len(team_names) : team_names[k] \in prompt_files

\* main() has been started; nothing is constructed yet.
StartupInit ==
  /\ launch \in Launches
  /\ config = [team_prompts |-> <<>>, max_iterations |-> 1, scenario |-> <<>>]
  /\ items = <<>>
  /\ teams = <<>>
  /\ remaining_items = <<>>
  /\ auction_history = <<>>
  /\ pc = "startup"
  /\ round_number = 0
  /\ iteration = 0
  /\ loop_done = FALSE
  /\ all_bids = <<>>
  /\ winning_bids_history = <<>>
  /\ iteration_start_high_bid = 0
  /\ iteration_start_high_bidder = None
  /\ shuffled_teams = <<>>
  /\ iteration_bids = <<>>
  /\ bids_history_snapshot = <<>>
  /\ pos = 0
  /\ game_states = <<>>
  /\ rankings = <<>>
  /\ flushed = [detailed_logs |-> <<>>, auction_results |-> <<>>, team_states |-> <<>>]
  /\ start_teams = <<>>
  /\ cast_by = <<>>
  /\ llm_response = NoResponse
  /\ parsed_bid = -1

\* main(), lines 197-241: the teams are taken from --teams or discovered, the
\* checks are made, the GameConfig is built; a failed check ends the program.
MainValidate ==
  /\ pc = "startup"
  /\ \E team_names \in (IF launch.teams_arg # <<>> THEN {launch.teams_arg}
                        ELSE available_teams(launch.prompt_files)) :
       IF /\ enough_teams(team_names)
          /\ launch.scenario.exists
          /\ prompts_exist(team_names, launch.prompt_files)
       THEN /\ config' = [config EXCEPT !.team_prompts = team_names]
            /\ pc' = "construct"
       ELSE /\ pc' = "startup_error"
            /\ UNCHANGED config
  /\ UNCHANGED << items, teams, remaining_items, auction_history, round_number,
                  auction_locals, game_states, rankings, flushed, start_teams, cast_by,
                  probe_vars >>

\* AuctionEngine.__init__: the LLM client, the scenario, the teams; an
\* exception of any of them ends the program in main()'s handler, with no
\* engine to save logs from.
ConstructEngine ==
  /\ pc = "construct"
  /\ IF /\ launch.api_key
        /\ load_scenario(launch.scenario).ok
        /\ prompts_exist(config.team_prompts, launch.prompt_files)
     THEN /\ config' = [config EXCEPT !.scenario = load_scenario(launch.scenario).items]
          /\ items' = load_scenario(launch.scenario).items
          /\ remaining_items' = [k \in 1..Len(load_scenario(launch.scenario).items) |-> k]
          /\ teams' = [t \in 1..Len(config.team_prompts) |->
                         [ name |-> config.team_prompts[t],
                           budget |-> calculate_starting_budget(Len(config.team_prompts)),
                           acquired_items |-> <<>> ]]
          /\ start_teams' = teams'
          /\ pc' = "next_item"
     ELSE /\ pc' = "startup_error"
          /\ UNCHANGED << config, items, remaining_items, teams, start_teams >>
  /\ UNCHANGED << auction_history, round_number, auction_locals, game_states, rankings,
                  flushed, cast_by, probe_vars >>

StartupNext ==
  \/ MainValidate
  \/ ConstructEngine
  \/ Next

StartupSpec == StartupInit /\ [][StartupNext]_vars

\* ------------------------------------------------------------------------
\* A game of three teams and one item
\* ------------------------------------------------------------------------

\* AuctionEngine.__init__ has run for --teams X Y Z, --max-iterations 2 and a
\* catalog of one required item.
ThreeTeamInit ==
  /\ config = [ team_prompts |-> <<"X", "Y", "Z">>, max_iterations |-> 2,
                scenario |-> << [name |-> "A", quality |-> 50, is_required |-> TRUE] >> ]
  /\ items = config.scenario
  /\ teams = [t \in 1..Len(config.team_prompts) |->
                [ name |-> config.team_prompts[t],
                  budget |-> calculate_starting_budget(Len(config.team_prompts)),
                  acquired_items |-> <<>> ]]
  /\ remaining_items = [k \in 1..Len(config.scenario) |-> k]
  /\ auction_history = <<>>
  /\ pc = "next_item"
  /\ round_number = 0
  /\ iteration = 0
  /\ loop_done = FALSE
  /\ all_bids = <<>>
  /\ winning_bids_history = <<>>
  /\ iteration_start_high_bid = 0
  /\ iteration_start_high_bidder = None
  /\ shuffled_teams = <<>>
  /\ iteration_bids = <<>>
  /\ bids_history_snapshot = <<>>
  /\ pos = 0
  /\ game_states = <<>>
  /\ rankings = <<>>
  /\ flushed = [detailed_logs |-> <<>>, auction_results |-> <<>>, team_states |-> <<>>]
  /\ start_teams = teams
  /\ cast_by = <<>>
  /\ llm_response = NoResponse
  /\ parsed_bid = -1
  /\ launch = NoLaunch

ThreeTeamSpec == ThreeTeamInit /\ [][Next]_vars


\* ------------------------------------------------------------------------
\* Further games of one item
\* ------------------------------------------------------------------------

\* The state after AuctionEngine.__init__ has run for the GameConfig cfg.
EngineConstructed(cfg) ==
  /\ config = cfg
  /\ items = cfg.scenario
  /\ teams = [t \in 1..Len(cfg.team_prompts) |->
                [ name |-> cfg.team_prompts[t],
                  budget |-> calculate_starting_budget(Len(cfg.team_prompts)),
                  acquired_items |-> <<>> ]]
  /\ remaining_items = [k \in 1..Len(cfg.scenario) |-> k]
  /\ auction_history = <<>>
  /\ pc = "next_item"
  /\ round_number = 0
  /\ iteration = 0
  /\ loop_done = FALSE
  /\ all_bids = <<>>
  /\ winning_bids_history = <<>>
  /\ iteration_start_high_bid = 0
  /\ iteration_start_high_bidder = None
  /\ shuffled_teams = <<>>
  /\ iteration_bids = <<>>
  /\ bids_history_snapshot = <<>>
  /\ pos = 0
  /\ game_states = <<>>
  /\ rankings = <<>>
  /\ flushed = [detailed_logs |-> <<>>, auction_results |-> <<>>, team_states |-> <<>>]
  /\ start_teams = teams
  /\ cast_by = <<>>
  /\ llm_response = NoResponse
  /\ parsed_bid = -1
  /\ launch = NoLaunch

\* --teams X Y and a catalog of one required item, with --max-iterations 4 (the
\* cap lies above the number of iterations the budgets allow) or 2 (the cap
\* can be reached).
LongAuctionInit ==
  \E mi \in {2, 4} :
    EngineConstructed([ team_prompts |-> <<"X", "Y">>, max_iterations |-> mi,
                        scenario |-> << [name |-> "A", quality |-> 50, is_required |-> TRUE] >> ])

LongAuctionSpec == LongAuctionInit /\ [][Next]_vars

\* The program is one thread: while a step of main() is possible, one is taken.
LongAuctionLiveSpec == LongAuctionInit /\ [][Next]_vars /\ WF_vars(Next)

\* --teams "" Y (the prompt file of the first team is prompts/.txt),
\* --max-iterations 2 and a catalog of one required item.
EmptyNameInit ==
  EngineConstructed([ team_prompts |-> <<"", "Y">>, max_iterations |-> 2,
                      scenario |-> << [name |-> "A", quality |-> 50, is_required |-> TRUE] >> ])

EmptyNameSpec == EmptyNameInit /\ [][Next]_vars


\* ------------------------------------------------------------------------
\* Properties
\* ------------------------------------------------------------------------

StartingBudget == calculate_starting_budget(Len(config.team_prompts))

\* Sum of winning_bid over the results whose winning team has the given name.
RECURSIVE SumWinningBids(_, _)
SumWinningBids(history, name) ==
  IF history = <<>> THEN 0
  ELSE (IF Head(history).winning_team = name THEN Head(history).winning_bid ELSE 0)
       + SumWinningBids(Tail(history), name)

\* The number of times an item occurs in a list of acquired items.
Occurrences(acq, item) == Cardinality({k \in 1..Len(acq) : acq[k] = item})

\* The teams whose acquired list holds the item.
Holders(item) == {t \in TeamIdx : Occurrences(teams[t].acquired_items, item) > 0}

\* The result of the current item is in the history.
Resolved == round_number > 0 /\ Len(auction_history) = round_number

\* C1: every team's budget is >= 0 in every reachable state, and when win_item
\* is about to be applied the winning bid is at most the budget of the team it
\* is applied to.
C1_BudgetSafety ==
  /\ \A t \in TeamIdx : teams[t].budget >= 0
  /\ pc = "win_item" => iteration_start_high_bid <= teams[Winner].budget

\* C2: between two items and at the end of the game, every team's starting
\* budget minus the winning bids of the results that name it equals its
\* budget, and the final ranking reports that budget.
C2_BudgetConservation ==
  /\ pc \in {"next_item", "done"} =>
       \A t \in TeamIdx :
         StartingBudget - SumWinningBids(auction_history, teams[t].name) = teams[t].budget
  /\ pc = "done" =>
       \A r \in 1..Len(rankings) :
         rankings[r].remaining_budget =
           StartingBudget - SumWinningBids(auction_history, rankings[r].team_name)

\* C3: every result in the history is either unsold (no winning team, price 0,
\* the item in no team's acquired list) or sold to exactly one team (a winning
\* team is named, exactly one team holds the item, holds it once, and bears
\* the winning name).
C3_UnsoldOrSoldToOne ==
  \A k \in 1..Len(auction_history) :
    LET r == auction_history[k]
        unsold == /\ r.winning_team = None
                  /\ Holders(r.item) = {}
        sold == /\ r.winning_team # None
                /\ \E t \in TeamIdx :
                     /\ Holders(r.item) = {t}
                     /\ Occurrences(teams[t].acquired_items, r.item) = 1
                     /\ teams[t].name = r.winning_team
    IN (unsold \/ sold) /\ ~(unsold /\ sold)

C3_Witness ==
  /\ Len(auction_history) = 2
  /\ auction_history[1].winning_team # None
  /\ auction_history[2].winning_team = None
  /\ Holders(1) # {}

\* C4: when the current item's auction has resolved as unsold, every team's
\* budget and acquired list equal their values when the auction started.
C4_UnsoldFrame ==
  (Resolved /\ auction_history[round_number].winning_team = None) => teams = start_teams

C4_Witness ==
  /\ Resolved
  /\ round_number = 2
  /\ auction_history[2].winning_team = None
  /\ auction_history[1].winning_team # None
  /\ \E t \in TeamIdx : teams[t].budget < StartingBudget

BidsBefore(iter) == SelectSeq(all_bids, LAMBDA b : b.iteration < iter)

\* C5: every GameState built in the running iteration carries the leader
\* amount, the leader and the bid history fixed at the end of the previous
\* iteration (0, none and empty in iteration 1): the amount is the highest bid
\* of the earlier iterations, the history holds no bid of this iteration, and
\* all GameStates of the iteration carry the same three values.
C5_Simultaneity ==
  pc = "bidding" =>
    \A k \in 1..Len(game_states) :
      LET gs == game_states[k]
      IN /\ gs.current_iteration = iteration
         /\ gs.my_team.name = teams[shuffled_teams[k]].name
         /\ gs.current_highest_bid = MaxAmount(BidsBefore(iteration))
         /\ gs.current_highest_bid = iteration_start_high_bid
         /\ gs.current_highest_bidder = iteration_start_high_bidder
         /\ gs.bids_history = winning_bids_history
         /\ \A j \in 1..Len(gs.bids_history) : gs.bids_history[j].iteration < iteration
         /\ iteration = 1 =>
              /\ gs.current_highest_bid = 0
              /\ gs.current_highest_bidder = None
              /\ gs.bids_history = <<>>
         /\ gs.current_highest_bid = game_states[1].current_highest_bid
         /\ gs.current_highest_bidder = game_states[1].current_highest_bidder
         /\ gs.bids_history = game_states[1].bids_history

C5_Witness ==
  /\ pc = "bidding"
  /\ iteration = 2
  /\ Len(game_states) = 2
  /\ iteration_bids[1].amount > iteration_start_high_bid
  /\ iteration_start_high_bid > 0

\* The positions of the just finished iteration whose bid is the maximum.
TiedPositions == {k \in 1..Len(iteration_bids) : iteration_bids[k].amount = MaxAmount(iteration_bids)}

\* C6: when an iteration has made its maximum the new leading amount, the
\* recorded leader is the team that comes first in the iteration's shuffled
\* order among those that bid the maximum.
C6_TieBreak ==
  (pc = "iter_head" /\ iteration >= 1) =>
    /\ iteration_start_high_bid = MaxAmount(iteration_bids)
    /\ \E k \in TiedPositions :
         /\ \A j \in TiedPositions : k <= j
         /\ iteration_bids[k].team_name = teams[shuffled_teams[k]].name
         /\ iteration_start_high_bidder = teams[shuffled_teams[k]].name
    /\ winning_bids_history[Len(winning_bids_history)] =
         [team_name |-> iteration_start_high_bidder, amount |-> iteration_start_high_bid,
          iteration |-> iteration]

C6_Witness ==
  /\ pc = "iter_head"
  /\ iteration >= 1
  /\ Cardinality(TiedPositions) = 2
  /\ shuffled_teams = <<2, 1>>
  /\ teams[1].name # teams[2].name
  /\ iteration_start_high_bidder = teams[2].name


Exits == {"interrupted", "failed"}

\* The leader amount and the leader the teams were shown in the running iteration.
FrozenBid == game_states[1].current_highest_bid

FrozenBidder == game_states[1].current_highest_bidder

\* C7: a finished iteration whose maximum does not exceed the frozen leader
\* amount ends the auction: no further bid is recorded, the frozen leader wins
\* at the frozen amount when that amount is > 0 and the item is unsold
\* otherwise, and the result counts the iterations run.  A finished iteration
\* whose maximum exceeds the frozen amount makes that maximum the leading
\* amount, and below the cap the next step of the auction is another iteration.
C7_PolicyA ==
  [][ /\ (pc = "bidding" /\ pos > NumTeams /\ pc' \notin Exits
            /\ MaxAmount(iteration_bids) <= FrozenBid) =>
           /\ pc' = IF FrozenBid > 0 THEN "win_item" ELSE "return_result"
           /\ iteration_start_high_bid' = FrozenBid
           /\ iteration_start_high_bidder' = FrozenBidder
      /\ (pc = "bidding" /\ pos > NumTeams /\ pc' \notin Exits
            /\ MaxAmount(iteration_bids) > FrozenBid) =>
           /\ pc' = "iter_head"
           /\ iteration_start_high_bid' = MaxAmount(iteration_bids)
      /\ (pc = "iter_head" /\ iteration >= 1 /\ iteration < config.max_iterations
            /\ pc' \notin Exits) =>
           /\ pc' = "bidding"
           /\ iteration' = iteration + 1
           /\ pos' = 1
      /\ (pc \in {"win_item", "win_item_append", "return_result"} /\ pc' \notin Exits) =>
           /\ all_bids' = all_bids
           /\ pc' \in {"win_item_append", "return_result", "save_logs"}
      /\ (pc = "return_result" /\ pc' = "save_logs" /\ ~loop_done) =>
           LET r == auction_history'[Len(auction_history')]
           IN /\ r.iterations = iteration
              /\ Len(r.all_bids) = iteration * NumTeams
              /\ r.winning_bid = FrozenBid
              /\ r.winning_team = (IF FrozenBid > 0 THEN FrozenBidder ELSE None)
              /\ FrozenBid > 0 => Holders(r.item) # {}
    ]_vars

C7_Witness ==
  /\ pc = "save_logs"
  /\ ~loop_done
  /\ iteration = 2
  /\ auction_history[Len(auction_history)].winning_bid > 0
  /\ auction_history[Len(auction_history)].iterations = 2

\* The teams other than the leader (the leader is known by its name).
OtherTeams == {t \in TeamIdx : teams[t].name # iteration_start_high_bidder}

\* C8: no iteration of bidding is run once the leader amount exceeds the budget
\* of every other team.
C8_EarlyTermination ==
  ~ ( /\ pc = "bidding"
      /\ iteration_start_high_bid > 0
      /\ OtherTeams # {}
      /\ \A t \in OtherTeams : teams[t].budget < iteration_start_high_bid )

\* C9: an auction never runs more than max_iterations iterations; when the
\* loop ends at the cap the last iteration made its maximum the leading amount
\* and its first bidder of that amount (in the shuffled order) the leader, and
\* the result awards the item to that leader at that amount, or reports it
\* unsold when the amount is 0, with iterations = max_iterations.
C9_IterationCap ==
  /\ iteration <= config.max_iterations
  /\ \A k \in 1..Len(auction_history) :
       /\ auction_history[k].iterations <= config.max_iterations
       /\ \A j \in 1..Len(auction_history[k].all_bids) :
            auction_history[k].all_bids[j].iteration <= config.max_iterations
  /\ loop_done =>
       /\ iteration = config.max_iterations
       /\ iteration_start_high_bid = MaxAmount(iteration_bids)
       /\ \E k \in TiedPositions :
            /\ \A j \in TiedPositions : k <= j
            /\ iteration_start_high_bidder = teams[shuffled_teams[k]].name
  /\ (loop_done /\ Resolved) =>
       LET r == auction_history[round_number]
       IN /\ r.iterations = config.max_iterations
          /\ Len(r.all_bids) = config.max_iterations * NumTeams
          /\ iteration_start_high_bid > 0 =>
               /\ r.winning_team = iteration_start_high_bidder
               /\ r.winning_bid = iteration_start_high_bid
               /\ Holders(r.item) # {}
          /\ iteration_start_high_bid = 0 =>
               /\ r.winning_team = None
               /\ r.winning_bid = 0

C9_Witness ==
  /\ loop_done
  /\ Resolved
  /\ config.max_iterations = 2
  /\ Cardinality(TiedPositions) = 2
  /\ auction_history[round_number].winning_bid = 2

RECURSIVE TotalDebit(_)
TotalDebit(team_states) ==
  IF team_states = <<>> THEN 0
  ELSE (StartingBudget - Head(team_states).budget) + TotalDebit(Tail(team_states))

RECURSIVE TotalPaid(_)
TotalPaid(results) ==
  IF results = <<>> THEN 0 ELSE Head(results).winning_bid + TotalPaid(Tail(results))

\* No partial win in a view of the game: the budgets are debited by exactly
\* the winning bids of the recorded results, and an item is in an acquired
\* list exactly when a recorded result names a winner for it.
Consistent(team_states, holds(_, _), results, sold(_, _)) ==
  /\ TotalDebit(team_states) = TotalPaid(results)
  /\ \A i \in 1..Len(items) :
       (\E t \in 1..Len(team_states) : holds(team_states[t], i))
         <=> (\E k \in 1..Len(results) : sold(results[k], i))

\* C10: wherever the game state is observed (a GameState built for a team,
\* the session logs written after an item, on an interruption or on an error)
\* there is no partial win: a budget is debited for an item and the item is in
\* an acquired list if and only if the item's result is recorded.
C10_AtomicWin ==
  /\ flushed.team_states # <<>> =>
       Consistent(flushed.team_states,
                  LAMBDA s, i : Occurrences(s.acquired_items, i) > 0,
                  flushed.auction_results,
                  LAMBDA r, i : r.item_name = items[i].name /\ r.winner # None)
  /\ \A g \in 1..Len(game_states) :
       Consistent(<<game_states[g].my_team>> \o game_states[g].opponent_teams,
                  LAMBDA s, i : Occurrences(s.acquired_items, i) > 0,
                  game_states[g].auction_history,
                  LAMBDA r, i : r.item = i /\ r.winning_team # None)

\* The result of the item that was auctioned last.
LastResult == auction_history[round_number]

\* C11: when an item is sold, the budget of the team it is handed to decreases
\* by exactly the winning_bid stored in the item's AuctionResult, and the
\* budget of no other team changes.
C11_DebitEqualsWinningBid ==
  (Resolved /\ LastResult.winning_team # None) =>
    LET w == FindTeam(LastResult.winning_team)
    IN /\ start_teams[w].budget - teams[w].budget = LastResult.winning_bid
       /\ \A t \in TeamIdx \ {w} : teams[t].budget = start_teams[t].budget

C11_Witness ==
  /\ Resolved
  /\ round_number = 2
  /\ LastResult.winning_bid = 1
  /\ FindTeam(LastResult.winning_team) = 2
  /\ start_teams[1].budget = 0
  /\ start_teams[2].budget = StartingBudget
  /\ teams[2].budget = StartingBudget - 1

RECURSIVE SumIterations(_)
SumIterations(history) ==
  IF history = <<>> THEN 0 ELSE Head(history).iterations + SumIterations(Tail(history))

\* C12: the detailed bid log has exactly (sum over the resolved items of
\* result.iterations) * (number of teams) rows, and in every iteration of
\* every resolved item every team cast exactly one bid: nobody is skipped, a
\* team without budget or without a usable response included.
C12_LogCompleteness ==
  /\ Len(get_detailed_logs(auction_history)) = SumIterations(auction_history) * NumTeams
  /\ \A k \in 1..Len(auction_history) :
       LET r == auction_history[k]
       IN /\ Len(cast_by[k]) = Len(r.all_bids)
          /\ \A i \in 1..r.iterations : \A t \in TeamIdx :
               Cardinality({j \in 1..Len(r.all_bids) :
                              /\ r.all_bids[j].iteration = i
                              /\ cast_by[k][j] = t
                              /\ r.all_bids[j].team_name = teams[t].name}) = 1

C12_Witness ==
  /\ pc = "done"
  /\ config.max_iterations = 2
  /\ Len(get_detailed_logs(auction_history)) = 8
  /\ \E t \in TeamIdx : start_teams[t].budget = 0
  /\ auction_history[2].winning_team # None

\* The won flag get_detailed_logs gives the j-th bid of a result.
WonFlag(r, j) == r.all_bids[j].team_name = r.winning_team /\ r.all_bids[j].amount = r.winning_bid

\* C13: a row of the detailed bid log is marked won only if its team name is
\* the item's winning team and its amount the item's winning bid; all the rows
\* of an item that are marked won were cast by one team (a team that bid the
\* winning amount but lost the tie-break has no row marked won); no row of an
\* unsold item is marked won.
C13_WonFlag ==
  \A k \in 1..Len(auction_history) :
    LET r == auction_history[k]
        rows == SelectSeq(get_detailed_logs(auction_history),
                          LAMBDA row : row.item_name = items[r.item].name)
    IN /\ Len(rows) = Len(r.all_bids)
       /\ \A j \in 1..Len(rows) :
            /\ rows[j].won <=> WonFlag(r, j)
            /\ rows[j].won => r.winning_team # None
       /\ \A j1, j2 \in 1..Len(rows) :
            (rows[j1].won /\ rows[j2].won) => cast_by[k][j1] = cast_by[k][j2]

\* The ranking entry the state of team t gives at rank r.
RankingOf(t, r) ==
  [ rank |-> r,
    team_name |-> teams[t].name,
    required_count |-> required_count(teams[t]),
    total_quality |-> total_quality(teams[t]),
    remaining_budget |-> teams[t].budget,
    items |-> [k \in 1..Len(teams[t].acquired_items) |-> items[teams[t].acquired_items[k]].name] ]

\* Entry a is ranked strictly before entry b by the three criteria.
RanksBefore(a, b) ==
  \/ a.required_count > b.required_count
  \/ a.required_count = b.required_count /\ a.total_quality > b.total_quality
  \/ /\ a.required_count = b.required_count
     /\ a.total_quality = b.total_quality
     /\ a.remaining_budget > b.remaining_budget

\* C14: the final ranking holds every team exactly once, with the ranks
\* 1..n in order; it is sorted by (required count, total quality, remaining
\* budget), descending and lexicographic; teams with equal keys appear in the
\* order of self.teams.
C14_RankingOrder ==
  pc = "done" =>
    /\ Len(rankings) = NumTeams
    /\ \E p \in Orders :
         /\ \A r \in TeamIdx : rankings[r] = RankingOf(p[r], r)
         /\ \A r1, r2 \in TeamIdx :
              r1 < r2 =>
                /\ ~RanksBefore(rankings[r2], rankings[r1])
                /\ ~RanksBefore(rankings[r1], rankings[r2]) => p[r1] < p[r2]

C14_Witness ==
  /\ pc = "done"
  /\ rankings[1].team_name = "Y"
  /\ rankings[1].required_count = 1
  /\ rankings[2].required_count = 1
  /\ rankings[1].total_quality > rankings[2].total_quality
  /\ rankings[1].remaining_budget < rankings[2].remaining_budget

BidRequested == pc = "bidding" /\ pos <= NumTeams

\* The budget of the team that is asked next.
BidderBudget == teams[shuffled_teams[pos]].budget

\* C16: whatever the response, a bid request records a Bid (the request is
\* not rejected): with the team's budget when the parsed bid exceeds it, with
\* the parsed bid otherwise; every Bid recorded in the running auction has
\* 0 <= amount <= the budget its team had when it bid.
C16_BidClamping ==
  /\ BidRequested =>
       \A response \in Responses :
         LET parsed == parse_bid_response(response)
             amount == get_bid(response, BidderBudget)
         IN /\ amount >= 0
            /\ parsed > BidderBudget => amount = BidderBudget
            /\ parsed <= BidderBudget => amount = parsed
  /\ (pc \in {"bidding", "iter_head"} /\ round_number = Len(cast_by)) =>
       \A j \in 1..Len(all_bids) :
         /\ all_bids[j].amount >= 0
         /\ all_bids[j].amount <= teams[cast_by[round_number][j]].budget

\* The position of the first digit of a text (0 when it has none).
FirstDigitPos(s) ==
  IF \E k \in 1..Len(s) : IsDigit(s[k])
  THEN CHOOSE k \in 1..Len(s) : IsDigit(s[k]) /\ \A j \in 1..(k - 1) : ~IsDigit(s[j])
  ELSE 0

\* The bid the first integer literal of a response stands for: the digits
\* from the first digit on, 0 when a minus sign makes the literal negative,
\* 0 when there is no literal or no response.
FirstIntegerBid(response) ==
  IF response.none \/ FirstDigitPos(response.text) = 0 THEN 0
  ELSE LET s == response.text
           k == FirstDigitPos(s)
           value == DecimalValue(LeadingDigits(SubSeq(s, k, Len(s))))
       IN IF k > 1 /\ s[k - 1] = "-" /\ value > 0 THEN 0 ELSE value

\* C17: the parsed bid is the value of the first integer literal occurring
\* anywhere in the response; it is 0 when the response has no integer literal
\* or is absent, and 0 when the literal is negative.
C17_FirstIntegerAnywhere ==
  pc = "parsed" => parsed_bid = FirstIntegerBid(llm_response)

\* What chat_completion hands to get_bid when the call failed or the payload
\* was empty or malformed: None, or an empty text.
FailedResponses == {NoResponse, Text(<<>>)}

\* C18: when the reasoning call of the team that is asked next fails, or
\* returns an empty or malformed payload, the team's bid is 0 (a Bid the
\* iteration records and goes on from).
C18_ForfeitOnFailure ==
  BidRequested => \A response \in FailedResponses : get_bid(response, BidderBudget) = 0

\* C19: once the game runs, no error of an item's auction ends it: the game
\* is never left through the error handler of main().
C19_NoAbort == pc # "failed"

\* The teams whose states a GameState built for team t carries as opponents.
OpponentsOf(t) == SelectSeq([u \in TeamIdx |-> u], LAMBDA u : teams[u].name # teams[t].name)

\* A handed-out TeamState is an object of its own and reads as the state
\* team t had when the running auction started (when the object was made).
IndependentOf(s, t) ==
  /\ s.live = 0
  /\ read_state(s).budget = start_teams[t].budget
  /\ read_state(s).acquired_items = start_teams[t].acquired_items

\* C20: every team state inside a GameState that was issued in the running
\* auction is an independent copy: it shares nothing with the live team, and
\* after win_item has debited the winner and appended the item it still reads
\* as the budget and acquired list the team had when the GameState was built.
C20_SnapshotIndependence ==
  \A g \in 1..Len(game_states) :
    LET gs == game_states[g]
        t == shuffled_teams[g]
    IN /\ IndependentOf(gs.my_team, t)
       /\ Len(gs.opponent_teams) = Len(OpponentsOf(t))
       /\ \A k \in 1..Len(gs.opponent_teams) :
            IndependentOf(gs.opponent_teams[k], OpponentsOf(t)[k])

C20_Witness ==
  /\ pc = "return_result"
  /\ Len(game_states) = NumTeams
  /\ teams[shuffled_teams[1]].budget < start_teams[shuffled_teams[1]].budget
  /\ Len(teams[shuffled_teams[1]].acquired_items) > Len(game_states[1].my_team.acquired_items)
  /\ game_states[2].opponent_teams # <<>>
  /\ read_state(game_states[2].opponent_teams[1]).budget > teams[shuffled_teams[1]].budget

\* C21: the items are auctioned one at a time in catalog order: the history
\* holds one result per item auctioned so far, the i-th being the result of
\* the i-th catalog item (while item k is auctioned: the results of items
\* 1..k-1; after it resolved: of 1..k), and a result in the history is never
\* changed or dropped by a later step.
C21_OrchestrationOrder ==
  /\ [](/\ Len(auction_history) \in {round_number - 1, round_number} \cap Nat
        /\ \A i \in 1..Len(auction_history) : auction_history[i].item = i
        /\ pc \in {"save_logs", "remove_item", "next_item", "done"}
             => Len(auction_history) = round_number)
  /\ [][/\ Len(auction_history') >= Len(auction_history)
        /\ \A i \in 1..Len(auction_history) : auction_history'[i] = auction_history[i]
        /\ round_number' \in {round_number, round_number + 1}]_vars

C21_Witness ==
  /\ pc = "done"
  /\ Len(items) = 3
  /\ Len(auction_history) = 3
  /\ auction_history[1].winning_team = "Y"
  /\ auction_history[2].winning_team = None
  /\ auction_history[3].winning_team = "X"

\* The catalog entries from..Len(items), in catalog order.
EntriesFrom(from) == [k \in 1..(Len(items) - from + 1) |-> from + k - 1]

\* C22: the remaining-items pool holds exactly the catalog entries that are
\* not resolved yet (entry k leaves it when its auction has resolved, sold or
\* not), and a GameState built while entry k is auctioned shows exactly the
\* entries k+1..n as remaining.
C22_RemainingPool ==
  /\ pc \in {"next_item", "done"} /\ items # <<>> =>
       remaining_items = EntriesFrom(round_number + 1)
  /\ pc \in {"iter_head", "bidding", "win_item", "win_item_append", "return_result",
             "save_logs", "remove_item"} =>
       remaining_items = EntriesFrom(round_number)
  /\ \A g \in 1..Len(game_states) :
       game_states[g].remaining_items = EntriesFrom(game_states[g].current_item + 1)

\* The amount team t bid in iteration i of the (resolved) first item.
BidOf(i, t) ==
  LET r == auction_history[1]
      j == CHOOSE j \in 1..Len(r.all_bids) : r.all_bids[j].iteration = i /\ cast_by[1][j] = t
  IN r.all_bids[j].amount

\* The position at which team t was asked in iteration i of the first item.
TurnOf(i, t) ==
  CHOOSE j \in 1..Len(cast_by[1]) :
    auction_history[1].all_bids[j].iteration = i /\ cast_by[1][j] = t

\* C23: three teams of equal budget: when in iteration 1 two teams bid the
\* same maximum a and the third bids less, and in iteration 2 every team
\* repeats its bid, the item is awarded in iteration 2 at price a to the one
\* of the two that was asked first in iteration 1, whatever the order of
\* iteration 2; the third team never wins.
C23_RepeatedTie ==
  (Len(auction_history) = 1 /\ NumTeams = 3 /\ Len(auction_history[1].all_bids) = 2 * NumTeams) =>
    \A x, y, z \in TeamIdx :
      ( /\ x # y /\ x # z /\ y # z
        /\ BidOf(1, x) = BidOf(1, y)
        /\ BidOf(1, z) < BidOf(1, x)
        /\ TurnOf(1, x) < TurnOf(1, y)
        /\ \A t \in TeamIdx : BidOf(2, t) = BidOf(1, t) )
      => /\ auction_history[1].iterations = 2
         /\ auction_history[1].winning_bid = BidOf(1, x)
         /\ auction_history[1].winning_team = teams[x].name
         /\ teams[x].budget = start_teams[x].budget - BidOf(1, x)
         /\ teams[x].acquired_items = <<1>>
         /\ teams[y] = start_teams[y]
         /\ teams[z] = start_teams[z]

C23_Witness ==
  /\ Len(auction_history) = 1
  /\ NumTeams = 3
  /\ Len(auction_history[1].all_bids) = 6
  /\ BidOf(1, 1) = 1 /\ BidOf(1, 2) = 1 /\ BidOf(1, 3) = 0
  /\ BidOf(2, 1) = 1 /\ BidOf(2, 2) = 1 /\ BidOf(2, 3) = 0
  /\ TurnOf(1, 2) < TurnOf(1, 1)
  /\ TurnOf(2, 1) < TurnOf(2, 2)
  /\ auction_history[1].winning_team = "Y"

\* Every bid of the result is a bid of 0.
AllZero(r) == \A j \in 1..Len(r.all_bids) : r.all_bids[j].amount = 0

\* C24: an item for which every team bid 0 in every iteration that was run
\* (all the allowed iterations, when the cap is 1) is unsold: winning_bid = 0,
\* no winning team, and no team holds the item or paid for it.
C24_AllZeroUnsold ==
  \A k \in 1..Len(auction_history) :
    AllZero(auction_history[k]) =>
      /\ auction_history[k].winning_team = None
      /\ auction_history[k].winning_bid = 0
      /\ Holders(k) = {}

C24_Witness ==
  /\ Resolved
  /\ config.max_iterations = 1
  /\ round_number = 2
  /\ AllZero(LastResult)
  /\ LastResult.iterations = config.max_iterations
  /\ Len(LastResult.all_bids) = NumTeams
  /\ LastResult.winning_team = None
  /\ auction_history[1].winning_team # None

\* The number of bids of the first k results of the history.
RECURSIVE BidsUpTo(_)
BidsUpTo(k) == IF k = 0 THEN 0 ELSE BidsUpTo(k - 1) + Len(auction_history[k].all_bids)

\* C25: when the game is interrupted, the logs written on the way out hold
\* every result that was in the history, with its winner, winning bid and
\* iteration count, and one row per bid of these results, in the order cast,
\* with the bid's team, amount and iteration; the team states written are the
\* current ones.
C25_InterruptFlush ==
  pc = "interrupted" =>
    /\ Len(flushed.auction_results) = Len(auction_history)
    /\ Len(flushed.detailed_logs) = BidsUpTo(Len(auction_history))
    /\ Len(flushed.team_states) = NumTeams
    /\ \A t \in TeamIdx :
         /\ flushed.team_states[t].budget = teams[t].budget
         /\ flushed.team_states[t].acquired_items = teams[t].acquired_items
    /\ \A k \in 1..Len(auction_history) :
         LET r == auction_history[k]
         IN /\ flushed.auction_results[k].item_name = items[r.item].name
            /\ flushed.auction_results[k].winner = r.winning_team
            /\ flushed.auction_results[k].winning_bid = r.winning_bid
            /\ flushed.auction_results[k].iterations = r.iterations
            /\ \A j \in 1..Len(r.all_bids) :
                 LET row == flushed.detailed_logs[BidsUpTo(k - 1) + j]
                 IN /\ row.item_name = items[r.item].name
                    /\ row.team_name = r.all_bids[j].team_name
                    /\ row.bid_amount = r.all_bids[j].amount
                    /\ row.iteration = r.all_bids[j].iteration
                    /\ row.winning_bid = r.winning_bid

C25_Witness ==
  /\ pc = "interrupted"
  /\ round_number = 2
  /\ Len(auction_history) = 1
  /\ auction_history[1].winning_team = "Y"
  /\ auction_history[1].iterations = 2
  /\ Len(flushed.detailed_logs) = 4
  /\ teams[2].budget < StartingBudget

\* The list now extends the list before.
Extends(now, before) == Len(now) >= Len(before) /\ SubSeq(now, 1, Len(before)) = before

\* C26: a team's budget and acquired list are changed only by the two
\* statements of win_item: no other step (a bid request among them) changes a
\* team state; over every step no budget grows and every acquired list is
\* extended at its end or left as it is.
C26_OnlyWinItemMutates ==
  [][teams' # teams =>
       /\ pc \in {"win_item", "win_item_append"}
       /\ \A t \in TeamIdx :
            /\ teams'[t].name = teams[t].name
            /\ teams'[t].budget <= teams[t].budget
            /\ Extends(teams'[t].acquired_items, teams[t].acquired_items)]_vars

C26_Witness ==
  /\ pc = "bidding"
  /\ round_number = 2
  /\ pos = 2
  /\ iteration = 2
  /\ teams[1].budget = StartingBudget - 1
  /\ teams[1].acquired_items = <<1>>
  /\ teams[2] = [name |-> "Y", budget |-> StartingBudget, acquired_items |-> <<>>]

\* The bids were cast one per team and iteration, in blocks of NumTeams: the
\* j-th bid belongs to iteration ((j-1) \div NumTeams) + 1, carries the name
\* of the team that cast it, and no team cast two bids of a block.
OnePerTeamAndIteration(bids, cast) ==
  /\ Len(cast) = Len(bids)
  /\ \A j \in 1..Len(bids) :
       /\ bids[j].iteration = ((j - 1) \div NumTeams) + 1
       /\ bids[j].team_name = teams[cast[j]].name
       /\ \A i \in 1..(j - 1) : bids[i].iteration = bids[j].iteration => cast[i] # cast[j]

\* C27: in every iteration every team is asked exactly once and exactly one
\* Bid with the iteration's number is recorded for it; a team's request is
\* complete (its GameState built, its Bid recorded) before the next team is
\* asked; the result's bid list holds all the bids in the order cast, whether
\* the item is sold or not.
C27_SequentialBids ==
  /\ (pc = "bidding" /\ round_number = Len(cast_by)) =>
       /\ Len(game_states) = pos - 1
       /\ Len(iteration_bids) = pos - 1
       /\ Len(all_bids) = (iteration - 1) * NumTeams + (pos - 1)
       /\ \A j \in 1..Len(iteration_bids) :
            /\ iteration_bids[j] = all_bids[(iteration - 1) * NumTeams + j]
            /\ iteration_bids[j].team_name = teams[shuffled_teams[j]].name
            /\ iteration_bids[j].iteration = iteration
            /\ cast_by[round_number][(iteration - 1) * NumTeams + j] = shuffled_teams[j]
            /\ game_states[j].my_team.name = iteration_bids[j].team_name
       /\ OnePerTeamAndIteration(all_bids, cast_by[round_number])
  /\ \A k \in 1..Len(auction_history) :
       /\ Len(auction_history[k].all_bids) = auction_history[k].iterations * NumTeams
       /\ OnePerTeamAndIteration(auction_history[k].all_bids, cast_by[k])

C27_Witness ==
  /\ pc = "done"
  /\ Len(items) = 2
  /\ auction_history[1].winning_team # None
  /\ auction_history[1].iterations = 2
  /\ cast_by[1] = <<2, 1, 1, 2>>
  /\ auction_history[2].winning_team = None
  /\ cast_by[2] = <<1, 2>>

\* A JSON object of a scenario file has the three fields of an item, in
\* either key convention.
HasItemFields(d) ==
  /\ "name" \in DOMAIN d \/ "Name" \in DOMAIN d
  /\ "quality" \in DOMAIN d \/ "Quality" \in DOMAIN d
  /\ "is_required" \in DOMAIN d \/ "IsRequired" \in DOMAIN d

\* The scenario file exists and is a well-formed catalog.
WellFormed(file) ==
  /\ file.exists
  /\ file.json \in {"list", "object"}
  /\ \A k \in 1..Len(file.data) : HasItemFields(file.data[k])

\* The run is started with a configuration error: the catalog file is missing
\* or malformed, fewer than 2 teams are configured (given or found), or a
\* team's prompt file is missing.
ConfigurationError ==
  \/ ~WellFormed(launch.scenario)
  \/ launch.teams_arg # <<>> /\ Len(launch.teams_arg) < 2
  \/ launch.teams_arg = <<>> /\ Cardinality(launch.prompt_files) < 2
  \/ \E k \in 1..Len(launch.teams_arg) : launch.teams_arg[k] \notin launch.prompt_files

\* C28: a run started with a configuration error stops at startup: no item
\* is ever auctioned and no bid is ever requested.
C28_ConfigErrorsFatal ==
  (launch.started /\ ConfigurationError) =>
    /\ pc \in {"startup", "construct", "startup_error"}
    /\ round_number = 0
    /\ game_states = <<>>
    /\ all_bids = <<>>
    /\ auction_history = <<>>
    /\ teams = <<>>

C28_Witness ==
  /\ launch.started
  /\ pc = "startup_error"
  /\ config.team_prompts = <<"Y", "X">>
  /\ launch.api_key
  /\ launch.scenario.json = "invalid"

\* The catalog a well-formed scenario file describes: name, quality and
\* required of every entry, whatever the key convention.
ContentOf(file) ==
  [k \in 1..Len(file.data) |->
     LET d == file.data[k]
     IN IF "name" \in DOMAIN d
        THEN [name |-> d.name, quality |-> d.quality, is_required |-> d.is_required]
        ELSE [name |-> d.Name, quality |-> d.Quality, is_required |-> d.IsRequired]]

\* The items a catalog stands for: a junk item has quality 0.
ItemsOf(content) ==
  [k \in 1..Len(content) |->
     [content[k] EXCEPT !.quality = IF content[k].is_required THEN @ ELSE 0]]

\* main()'s checks passed and AuctionEngine.__init__ has ended.
Constructed == launch.started /\ config.team_prompts # <<>> /\ pc \notin {"startup", "construct"}

\* C29: a well-formed catalog loads to the same items (name, quality,
\* required) as a bare list and as an object with "items", with lower-case
\* and with capitalized keys, items of quality 0 included.
C29_CatalogNormalization ==
  (Constructed /\ launch.api_key /\ WellFormed(launch.scenario)) =>
    /\ pc # "startup_error"
    /\ items = ItemsOf(ContentOf(launch.scenario))

RECURSIVE RequiredQuality(_)
RequiredQuality(acq) ==
  IF acq = <<>> THEN 0
  ELSE (IF items[Head(acq)].is_required THEN items[Head(acq)].quality ELSE 0)
       + RequiredQuality(Tail(acq))

\* C30: every Item has quality 0 when it is not required, whatever quality
\* the scenario file gave it; a team's total quality is the sum of the
\* qualities of its required items.
C30_JunkQualityZero ==
  /\ \A i \in 1..Len(items) : ~items[i].is_required => items[i].quality = 0
  /\ \A t \in TeamIdx : total_quality(teams[t]) = RequiredQuality(teams[t].acquired_items)

C30_Witness ==
  /\ launch.started
  /\ pc = "done"
  /\ Len(items) = 2
  /\ ContentOf(launch.scenario)[2].quality = 50
  /\ ~items[2].is_required
  /\ teams[1].acquired_items = <<2>>
  /\ teams[2].acquired_items = <<1>>
  /\ rankings[2].total_quality = 0

\* The iterations of the running auction that raised the leading amount.
RaisingIterations == {winning_bids_history[k].iteration : k \in 1..Len(winning_bids_history)}

\* The auction has left its loop by a return inside it, before the last
\* iteration the cap allows.
ResolvedBelowCap ==
  /\ pc \in {"win_item", "return_result"}
  /\ ~loop_done
  /\ iteration < config.max_iterations

\* C31: an auction that is resolved before the iteration cap has run two
\* consecutive iterations, the last two, that left the leading amount unchanged.
C31_TwoUnchangedIterations ==
  ResolvedBelowCap =>
    /\ iteration >= 2
    /\ iteration \notin RaisingIterations
    /\ (iteration - 1) \notin RaisingIterations

\* The first bid of r, in the order cast, at the amount a.
FirstBidAt(r, a) ==
  LET k == CHOOSE k \in 1..Len(r.all_bids) :
             /\ r.all_bids[k].amount = a
             /\ \A j \in 1..(k - 1) : r.all_bids[j].amount # a
  IN r.all_bids[k]

\* C32: while an auction goes on, every iteration has raised the leading
\* amount (the k-th entry of the leader history is of iteration k and exceeds
\* the entry before it); every result's winning_bid is the maximum of all bids
\* cast for the item, and a named winner is the name on the first bid, in the
\* order cast, of that amount.
C32_LeaderMonotone ==
  /\ \A k \in 1..Len(winning_bids_history) :
       /\ winning_bids_history[k].iteration = k
       /\ winning_bids_history[k].amount >
            (IF k = 1 THEN 0 ELSE winning_bids_history[k - 1].amount)
  /\ iteration_start_high_bid =
       (IF winning_bids_history = <<>> THEN 0
        ELSE winning_bids_history[Len(winning_bids_history)].amount)
  /\ (pc = "iter_head" /\ iteration >= 1) => Len(winning_bids_history) = iteration
  /\ \A n \in 1..Len(auction_history) :
       LET r == auction_history[n]
       IN /\ r.winning_bid = MaxAmount(r.all_bids)
          /\ r.winning_team # None =>
               r.winning_team = FirstBidAt(r, r.winning_bid).team_name

\* C33: every result names no winner exactly when its winning_bid is 0 and
\* names a winner exactly when its winning_bid is positive, and a result with
\* a positive bid among its bids names a winner.
C33_SoldIffPositive ==
  \A n \in 1..Len(auction_history) :
    LET r == auction_history[n]
    IN /\ r.winning_team = None <=> r.winning_bid = 0
       /\ r.winning_team # None <=> r.winning_bid > 0
       /\ (\E j \in 1..Len(r.all_bids) : r.all_bids[j].amount > 0) => r.winning_team # None

\* The elements of a sequence, as a set.
Range(seq) == {seq[k] : k \in 1..Len(seq)}

\* C34: the bid history of every GameState built in iteration k holds the
\* bids cast in iterations 1..k-1 of the running auction, all of them and
\* nothing else.
C34_SnapshotBidHistory ==
  pc = "bidding" =>
    \A k \in 1..Len(game_states) :
      Range(game_states[k].bids_history) = Range(BidsBefore(iteration))

\* The largest budget among the team states ts.
LargestBudget(ts) == CHOOSE b \in {ts[t].budget : t \in DOMAIN ts} :
                       \A t \in DOMAIN ts : ts[t].budget <= b

Min(a, b) == IF a <= b THEN a ELSE b

Terminated == pc \in {"done", "interrupted", "failed"}

\* C35: an auction never runs more than min(max_iterations, B + 1) iterations,
\* B being the largest budget when the auction started; the game ends, and
\* when run() has returned every catalog item has been auctioned exactly once,
\* in catalog order.
C35_Termination ==
  /\ [](iteration <= Min(config.max_iterations, LargestBudget(start_teams) + 1))
  /\ [](pc = "done" =>
          /\ Len(auction_history) = Len(items)
          /\ \A k \in 1..Len(items) : auction_history[k].item = k)
  /\ <>Terminated

C35_Witness ==
  /\ pc = "done"
  /\ config.max_iterations = 4
  /\ auction_history[1].iterations = 3
  /\ auction_history[1].winning_bid = StartingBudget

\* The position in all_bids of the bid that made its bidder the leader: the
\* first bid of the leading amount.
LeadingBidPos ==
  CHOOSE k \in 1..Len(all_bids) :
    /\ all_bids[k].amount = iteration_start_high_bid
    /\ \A j \in 1..(k - 1) : all_bids[j].amount # iteration_start_high_bid

\* The team that cast the leading bid.
LeadingBidder == cast_by[round_number][LeadingBidPos]

\* C36: the team win_item is called on, which is debited and receives the
\* item, is the team that cast the leading bid.
C36_WinnerIsBidder ==
  pc \in {"win_item", "win_item_append"} => Winner = LeadingBidder

\* All teams have bid in the running iteration.
IterationComplete == pc = "bidding" /\ pos > NumTeams

\* The GameState team t receives in the running iteration, whatever its turn.
SnapshotOf(t) ==
  build_game_state(t, round_number, iteration, iteration_start_high_bid,
                   iteration_start_high_bidder, bids_history_snapshot)

\* The bid team t cast in the running iteration.
BidCastBy(t) ==
  iteration_bids[CHOOSE k \in 1..Len(iteration_bids) : shuffled_teams[k] = t]

\* The bids of the iteration had the teams been asked in the order o, every
\* team answering its snapshot as it did.
BidsInOrder(o) == [k \in TeamIdx |-> BidCastBy(o[k])]

\* The teams whose bid is the maximum of the iteration.
TiedTeams == {t \in TeamIdx : BidCastBy(t).amount = MaxAmount(iteration_bids)}

\* C37: at the end of an iteration, every team was given the snapshot it
\* would have been given at any other turn; for every other order of the
\* teams, with each team bidding the same on the same snapshot, the bids are
\* the same, and so are the maximum and the decision to go on or to stop; when
\* the maximum becomes the leading amount, the leader named under that order
\* is one of the teams tied at the maximum, and every tied team is the named
\* leader under some order.
C37_OrderIndependence ==
  IterationComplete =>
    /\ \A k \in TeamIdx : game_states[k] = SnapshotOf(shuffled_teams[k])
    /\ \A o \in Orders :
         /\ Range(BidsInOrder(o)) = Range(iteration_bids)
         /\ MaxAmount(BidsInOrder(o)) = MaxAmount(iteration_bids)
         /\ Outbid(BidsInOrder(o), iteration_start_high_bid)
              = Outbid(iteration_bids, iteration_start_high_bid)
         /\ Outbid(iteration_bids, iteration_start_high_bid) =>
              NewLeader(BidsInOrder(o)) \in {teams[t].name : t \in TiedTeams}
    /\ Outbid(iteration_bids, iteration_start_high_bid) =>
         \A t \in TiedTeams : \E o \in Orders : NewLeader(BidsInOrder(o)) = teams[t].name

C37_Witness ==
  /\ IterationComplete
  /\ iteration = 2
  /\ TiedTeams = TeamIdx
  /\ teams[1].name # teams[2].name
  /\ Outbid(iteration_bids, iteration_start_high_bid)
  /\ NewLeader(iteration_bids) = teams[2].name

\* The rows of the detailed log marked won.
WonRows == SelectSeq(get_detailed_logs(auction_history), LAMBDA row : row.won)

\* The results of the history that name a winner.
SoldResults == SelectSeq(auction_history, LAMBDA r : r.winning_team # None)

\* C38: the detailed log has exactly one row marked won for every sold item
\* and none for an unsold item, so the rows marked won are as many as the
\* sold items.
C38_OneWonRowPerSoldItem ==
  /\ \A n \in 1..Len(auction_history) :
       LET r == auction_history[n]
       IN Cardinality({j \in 1..Len(r.all_bids) : WonFlag(r, j)})
            = (IF r.winning_team # None THEN 1 ELSE 0)
  /\ Len(WonRows) = Len(SoldResults)
====
